---- MODULE Spec2Model ----
(***************************************************************************)
(* Model of the two chart components of crypto-chart, EthChart             *)
(* (src/src/EthChart.tsx) and CryptoChart (src/unnamed/part_001): the      *)
(* fetch cycle started by the mount effect, the min-max normalisation of   *)
(* the fetched series and EthChart's Pearson correlation matrix.           *)
(*                                                                         *)
(* Numbers are ECMAScript Numbers: IEEE-754 binary64 with round to nearest *)
(* even, NaN and the two infinities.  A finite non-zero Number is          *)
(* (-1)^s * m * 2^e with m a 53-bit integer, kept as little-endian limbs   *)
(* of LimbBits bits (TLC's integers are 32 bits wide).  The two zeros are  *)
(* one value (no operation of the components tells them apart: the only    *)
(* divisions by zero have a zero or NaN numerator), and the exponent is    *)
(* not capped (no value of the model comes near 2^1024 or 2^-1022).        *)
(***************************************************************************)
EXTENDS Integers, Sequences, FiniteSets, TLC

(***************************************************************************)
(* Natural numbers of any size: little-endian limbs, no leading zero limb. *)
(***************************************************************************)
LimbBits == 15
Base == 2^LimbBits
Precision == 53

RECURSIVE BNorm(_)
BNorm(a) ==
  IF a = <<>> THEN a
  ELSE IF a[Len(a)] = 0 THEN BNorm(SubSeq(a, 1, Len(a) - 1)) ELSE a

RECURSIVE BAddC(_, _, _)
BAddC(a, b, c) ==
  IF a = <<>> /\ b = <<>> THEN (IF c = 0 THEN <<>> ELSE <<c>>)
  ELSE LET x == IF a = <<>> THEN 0 ELSE a[1]
           y == IF b = <<>> THEN 0 ELSE b[1]
           s == x + y + c
       IN  <<s % Base>> \o BAddC(IF a = <<>> THEN a ELSE Tail(a),
                                 IF b = <<>> THEN b ELSE Tail(b), s \div Base)

BAdd(a, b) == BAddC(a, b, 0)

\* a - b for a >= b
RECURSIVE BSubC(_, _, _)
BSubC(a, b, c) ==
  IF a = <<>> THEN <<>>
  ELSE LET y == IF b = <<>> THEN 0 ELSE b[1]
           d == a[1] - y - c
       IN  <<IF d < 0 THEN d + Base ELSE d>>
             \o BSubC(Tail(a), IF b = <<>> THEN b ELSE Tail(b),
                      IF d < 0 THEN 1 ELSE 0)

BSub(a, b) == BNorm(BSubC(a, b, 0))

\* -1, 0, 1 as a < b, a = b, a > b
RECURSIVE BCmpFrom(_, _, _)
BCmpFrom(a, b, i) ==
  IF i = 0 THEN 0
  ELSE IF a[i] < b[i] THEN -1
  ELSE IF a[i] > b[i] THEN 1
  ELSE BCmpFrom(a, b, i - 1)

BCmp(a, b) ==
  IF Len(a) < Len(b) THEN -1
  ELSE IF Len(a) > Len(b) THEN 1
  ELSE BCmpFrom(a, b, Len(a))

\* a * k + c for 0 <= k, c < Base
RECURSIVE BMulSmall(_, _, _)
BMulSmall(a, k, c) ==
  IF a = <<>> THEN (IF c = 0 THEN <<>> ELSE <<c>>)
  ELSE LET p == a[1] * k + c
       IN  <<p % Base>> \o BMulSmall(Tail(a), k, p \div Base)

RECURSIVE BMul(_, _)
BMul(a, b) ==
  IF a = <<>> \/ b = <<>> THEN <<>>
  ELSE BAdd(BMulSmall(a, b[1], 0),
            LET r == BMul(a, Tail(b)) IN IF r = <<>> THEN r ELSE <<0>> \o r)

\* floor(a / k) for 0 < k <= Base, from the top limb down (i limbs left, r carried)
RECURSIVE BDivSmallFrom(_, _, _, _)
BDivSmallFrom(a, k, i, r) ==
  IF i = 0 THEN <<>>
  ELSE LET v == r * Base + a[i]
       IN  BDivSmallFrom(a, k, i - 1, v % k) \o <<v \div k>>

BDivSmall(a, k) == BNorm(BDivSmallFrom(a, k, Len(a), 0))

Zeros(n) == [i \in 1..n |-> 0]

BShl(a, n) ==
  IF a = <<>> THEN a
  ELSE Zeros(n \div LimbBits) \o BMulSmall(a, 2^(n % LimbBits), 0)

BShr(a, n) ==
  IF Len(a) <= n \div LimbBits THEN <<>>
  ELSE BDivSmall(SubSeq(a, n \div LimbBits + 1, Len(a)), 2^(n % LimbBits))

RECURSIVE IntBitLen(_)
IntBitLen(k) == IF k = 0 THEN 0 ELSE 1 + IntBitLen(k \div 2)

BitLen(a) ==
  IF a = <<>> THEN 0 ELSE LimbBits * (Len(a) - 1) + IntBitLen(a[Len(a)])

BTestBit(a, n) ==
  IF Len(a) <= n \div LimbBits THEN 0
  ELSE (a[n \div LimbBits + 1] \div 2^(n % LimbBits)) % 2

BLowNonzero(a, n) == BShl(BShr(a, n), n) # a

RECURSIVE BFromInt(_)
BFromInt(k) == IF k = 0 THEN <<>> ELSE <<k % Base>> \o BFromInt(k \div Base)

\* a * k for 0 <= k < Base
BTimes(a, k) == IF k = 0 THEN <<>> ELSE BMulSmall(a, k, 0)

\* floor(r / b) for r < b * Base and b's top limb at least Base / 2: the estimate
\* from the top limbs is never too small, and is lowered until it fits
RECURSIVE BDigitFrom(_, _, _)
BDigitFrom(r, b, q) ==
  IF BCmp(BTimes(b, q), r) > 0 THEN BDigitFrom(r, b, q - 1) ELSE q

BDigit(r, b) ==
  LET n == Len(b)
      hi == IF Len(r) > n THEN r[n + 1] ELSE 0
      lo == IF Len(r) >= n THEN r[n] ELSE 0
      est == (hi * Base + lo) \div b[n]
  IN  BDigitFrom(r, b, IF est >= Base THEN Base - 1 ELSE est)

\* long division, the limbs i .. 1 of a still to bring down
RECURSIVE BLongDiv(_, _, _, _, _)
BLongDiv(a, b, i, r, q) ==
  IF i = 0 THEN [q |-> q, r |-> r]
  ELSE LET r1 == BNorm(<<a[i]>> \o r)
           d == BDigit(r1, b)
       IN  BLongDiv(a, b, i - 1, BSub(r1, BTimes(b, d)),
                    IF q = <<>> /\ d = 0 THEN q ELSE <<d>> \o q)

\* floor(a / b) and a mod b, for b > 0
BDivMod(a, b) ==
  LET sh == LimbBits - IntBitLen(b[Len(b)])
      a1 == BShl(a, sh)
      res == BLongDiv(a1, BShl(b, sh), Len(a1), <<>>, <<>>)
  IN  [q |-> res.q, r |-> BShr(res.r, sh)]

\* floor(sqrt(a)) by Newton's iteration from x >= sqrt(a)
RECURSIVE BSqrtFrom(_, _)
BSqrtFrom(a, x) ==
  LET y == BShr(BAdd(x, BDivMod(a, x).q), 1)
  IN  IF BCmp(y, x) >= 0 THEN x ELSE BSqrtFrom(a, y)

BSqrt(a) ==
  IF a = <<>> THEN a ELSE BSqrtFrom(a, BShl(<<1>>, (BitLen(a) + 1) \div 2))

(***************************************************************************)
(* ECMAScript Numbers.                                                     *)
(***************************************************************************)
NaN == [k |-> "nan", s |-> 0, m |-> <<>>, e |-> 0]
Zero == [k |-> "zero", s |-> 0, m |-> <<>>, e |-> 0]
Infinity == [k |-> "inf", s |-> 0, m |-> <<>>, e |-> 0]
NegInfinity == [k |-> "inf", s |-> 1, m |-> <<>>, e |-> 0]

IsNaN(x) == x.k = "nan"
IsFinite(x) == x.k \in {"zero", "num"}

\* (-1)^s * n * 2^e (and a little more when sticky), rounded to nearest, ties to even
Round(s, n, e, sticky) ==
  IF n = <<>> THEN Zero
  ELSE LET len == BitLen(n) IN
    IF len <= Precision
    THEN [k |-> "num", s |-> s, m |-> BShl(n, Precision - len),
          e |-> e - (Precision - len)]
    ELSE LET d == len - Precision
             q == BShr(n, d)
             up == BTestBit(n, d - 1) = 1
                   /\ (sticky \/ BLowNonzero(n, d - 1) \/ q[1] % 2 = 1)
             q2 == IF up THEN BAdd(q, <<1>>) ELSE q
         IN  IF BitLen(q2) > Precision
             THEN [k |-> "num", s |-> s, m |-> BShr(q2, 1), e |-> e + d + 1]
             ELSE [k |-> "num", s |-> s, m |-> q2, e |-> e + d]

Num(i) == Round(IF i < 0 THEN 1 ELSE 0, BFromInt(IF i < 0 THEN -i ELSE i), 0, FALSE)

Neg(x) == IF x.k \in {"num", "inf"} THEN [x EXCEPT !.s = 1 - x.s] ELSE x

\* x + y
Add(x, y) ==
  IF IsNaN(x) \/ IsNaN(y) THEN NaN
  ELSE IF x.k = "inf" THEN (IF y.k = "inf" /\ y.s # x.s THEN NaN ELSE x)
  ELSE IF y.k = "inf" THEN y
  ELSE IF x.k = "zero" THEN y
  ELSE IF y.k = "zero" THEN x
  ELSE LET e == IF x.e < y.e THEN x.e ELSE y.e
           a == BShl(x.m, x.e - e)
           b == BShl(y.m, y.e - e)
           c == BCmp(a, b)
       IN  IF x.s = y.s THEN Round(x.s, BAdd(a, b), e, FALSE)
           ELSE IF c = 0 THEN Zero
           ELSE IF c > 0 THEN Round(x.s, BSub(a, b), e, FALSE)
           ELSE Round(y.s, BSub(b, a), e, FALSE)

\* x - y
Sub(x, y) == Add(x, Neg(y))

\* x * y
Mul(x, y) ==
  IF IsNaN(x) \/ IsNaN(y) THEN NaN
  ELSE IF x.k = "inf" \/ y.k = "inf"
  THEN (IF x.k = "zero" \/ y.k = "zero" THEN NaN
        ELSE IF x.s = y.s THEN Infinity ELSE NegInfinity)
  ELSE IF x.k = "zero" \/ y.k = "zero" THEN Zero
  ELSE Round((x.s + y.s) % 2, BMul(x.m, y.m), x.e + y.e, FALSE)

\* x / y
Div(x, y) ==
  IF IsNaN(x) \/ IsNaN(y) THEN NaN
  ELSE IF x.k = "inf"
  THEN (IF y.k = "inf" THEN NaN
        ELSE IF x.s = y.s THEN Infinity ELSE NegInfinity)
  ELSE IF y.k = "inf" THEN Zero
  ELSE IF y.k = "zero"
  THEN (IF x.k = "zero" THEN NaN
        ELSE IF x.s = 0 THEN Infinity ELSE NegInfinity)
  ELSE IF x.k = "zero" THEN Zero
  ELSE LET d == BDivMod(BShl(x.m, Precision + 2), y.m)
       IN  Round((x.s + y.s) % 2, d.q, x.e - y.e - (Precision + 2), d.r # <<>>)

\* Math.sqrt(x)
Sqrt(x) ==
  IF IsNaN(x) THEN NaN
  ELSE IF x.k = "zero" THEN Zero
  ELSE IF x.s = 1 THEN NaN
  ELSE IF x.k = "inf" THEN Infinity
  ELSE LET odd == x.e % 2 = 1
           e2 == IF odd THEN x.e - 1 ELSE x.e
           n == BShl(x.m, 2 * (Precision \div 2 + 2) + (IF odd THEN 1 ELSE 0))
           r == BSqrt(n)
       IN  Round(0, r, e2 \div 2 - (Precision \div 2 + 2), BMul(r, r) # n)

\* |x| < |y| for finite non-zero x, y (both mantissas have Precision bits)
MagLess(x, y) == x.e < y.e \/ (x.e = y.e /\ BCmp(x.m, y.m) < 0)

\* x < y
Less(x, y) ==
  IF IsNaN(x) \/ IsNaN(y) THEN FALSE
  ELSE IF x = y THEN FALSE
  ELSE IF x.k = "inf" THEN x.s = 1
  ELSE IF y.k = "inf" THEN y.s = 0
  ELSE IF x.k = "zero" THEN y.s = 0
  ELSE IF y.k = "zero" THEN x.s = 1
  ELSE IF x.s # y.s THEN x.s = 1
  ELSE IF x.s = 0 THEN MagLess(x, y) ELSE MagLess(y, x)

\* x === y
StrictEq(x, y) == ~IsNaN(x) /\ ~IsNaN(y) /\ x = y

(***************************************************************************)
(* Values and helpers of the language.                                     *)
(***************************************************************************)
Undefined == [k |-> "undefined", s |-> 0, m |-> <<>>, e |-> 0]
Half == Div(Num(1), Num(2))

\* v || 0 for a Number or undefined
OrZero(v) == IF v = Undefined \/ IsNaN(v) \/ v = Zero THEN Zero ELSE v

Range(f) == {f[i] : i \in DOMAIN f}

\* An array or an object built by the code is a value: its elements are computed
\* when it is built, not each time one is read.
ArrayValue(f) == f \o <<>>
ObjectValue(f) == f @@ <<>>

\* Math.min(...xs)
MathMin(xs) ==
  IF \E i \in DOMAIN xs : IsNaN(xs[i]) THEN NaN
  ELSE IF xs = <<>> THEN Infinity
  ELSE CHOOSE x \in Range(xs) : \A y \in Range(xs) : ~Less(y, x)

\* Math.max(...xs)
MathMax(xs) ==
  IF \E i \in DOMAIN xs : IsNaN(xs[i]) THEN NaN
  ELSE IF xs = <<>> THEN NegInfinity
  ELSE CHOOSE x \in Range(xs) : \A y \in Range(xs) : ~Less(x, y)

\* xs.reduce((a, b) => a + b, 0)
RECURSIVE SumOf(_)
SumOf(xs) ==
  IF xs = <<>> THEN Zero
  ELSE Add(SumOf(SubSeq(xs, 1, Len(xs) - 1)), xs[Len(xs)])

LowerOf ==
  [c \in {"A", "B", "C", "D", "E", "F", "G", "H", "I", "J", "K", "L", "M", "N",
          "O", "P", "Q", "R", "S", "T", "U", "V", "W", "X", "Y", "Z"} |->
     CASE c = "A" -> "a" [] c = "B" -> "b" [] c = "C" -> "c" [] c = "D" -> "d"
       [] c = "E" -> "e" [] c = "F" -> "f" [] c = "G" -> "g" [] c = "H" -> "h"
       [] c = "I" -> "i" [] c = "J" -> "j" [] c = "K" -> "k" [] c = "L" -> "l"
       [] c = "M" -> "m" [] c = "N" -> "n" [] c = "O" -> "o" [] c = "P" -> "p"
       [] c = "Q" -> "q" [] c = "R" -> "r" [] c = "S" -> "s" [] c = "T" -> "t"
       [] c = "U" -> "u" [] c = "V" -> "v" [] c = "W" -> "w" [] c = "X" -> "x"
       [] c = "Y" -> "y" [] c = "Z" -> "z"]

\* str.toLowerCase(), a string being the sequence of its characters
toLowerCase(str) ==
  [i \in DOMAIN str |-> IF str[i] \in DOMAIN LowerOf THEN LowerOf[str[i]] ELSE str[i]]

\* str.slice(0, n)
slice0(str, n) == SubSeq(str, 1, IF n < Len(str) THEN n ELSE Len(str))

\* new Date(timestamp).toLocaleDateString(): month, day and year of the day the
\* millisecond falls in (UTC, January 1970 for the timestamps of the model)
MsPerDay == 86400000
toLocaleDateString(timestamp) == <<1, timestamp \div MsPerDay + 1, 1970>>

(***************************************************************************)
(* The components' constants.                                              *)
(***************************************************************************)
coins ==
  << <<"b", "i", "t", "c", "o", "i", "n">>,
     <<"e", "t", "h", "e", "r", "e", "u", "m">>,
     <<"b", "i", "n", "a", "n", "c", "e", "c", "o", "i", "n">>,
     <<"s", "o", "l", "a", "n", "a">>,
     <<"c", "a", "r", "d", "a", "n", "o">> >>

\* the coins of calculateCorrelationMatrix
matrixCoins ==
  << <<"b", "t", "c">>, <<"e", "t", "h">>, <<"b", "n", "b">>,
     <<"s", "o", "l">>, <<"a", "d", "a">> >>

CoinIx == DOMAIN coins

\* coins[i].slice(0, 3).toLowerCase()
coinKey(i) == toLowerCase(slice0(coins[i], 3))

FillLength == 365

(***************************************************************************)
(* fetchData after Promise.all: the table.                                 *)
(***************************************************************************)
\* result.prices.map((price) => price[1])
pricesOf(result) == ArrayValue([t \in DOMAIN result.prices |-> result.prices[t][2]])

\* EthChart: minMax of one result
minMaxEth(result) ==
  [min |-> MathMin(pricesOf(result)), max |-> MathMax(pricesOf(result))]

\* CryptoChart: rawPrices of one result
rawPricesCrypto(result) ==
  IF Len(result.prices) > 0 THEN pricesOf(result)
  ELSE [t \in 1..FillLength |-> Zero]

\* prices.filter((p) => p !== 0 && !isNaN(p))
validPricesOf(prices) ==
  LET kept == {i \in DOMAIN prices : ~StrictEq(prices[i], Zero) /\ ~IsNaN(prices[i])}
      nth(n) == CHOOSE i \in kept : Cardinality({j \in kept : j < i}) = n - 1
  IN  [n \in 1..Cardinality(kept) |-> prices[nth(n)]]

\* CryptoChart: minMax of one result
minMaxCrypto(result) ==
  LET prices == rawPricesCrypto(result)
      validPrices == validPricesOf(prices)
  IN  [min |-> IF Len(validPrices) > 0 THEN MathMin(validPrices) ELSE Zero,
       max |-> MathMax(prices)]

minMaxOf(comp, result) ==
  IF comp = "EthChart" THEN minMaxEth(result) ELSE minMaxCrypto(result)

\* result.prices[index]?.[1] || 0
rawPriceAt(result, index) ==
  OrZero(IF index \in DOMAIN result.prices THEN result.prices[index][2]
         ELSE Undefined)

\* a variant without the test of max === min
normalizedUnguarded(rawPrice, mm) ==
  LET normalized == Div(Sub(rawPrice, mm.min), Sub(mm.max, mm.min))
  IN  IF IsNaN(normalized) THEN Zero ELSE normalized

\* the value stored under the coin's key
normalizedValue(rawPrice, mm) ==
  LET normalized == IF StrictEq(mm.max, mm.min) THEN Half
                    ELSE Div(Sub(rawPrice, mm.min), Sub(mm.max, mm.min))
  IN  IF IsNaN(normalized) THEN Zero ELSE normalized

\* the entry of one timestamp: the date and, key by key, the value of the last
\* result written under the key
entryAt(comp, results, minMax, index) ==
  LET keys == {coinKey(i) : i \in DOMAIN results}
      lastOf(key) == CHOOSE i \in DOMAIN results :
                       /\ coinKey(i) = key
                       /\ \A j \in DOMAIN results : coinKey(j) = key => j <= i
  IN  [date |-> toLocaleDateString(results[1].prices[index][1]),
       vals |-> ObjectValue([key \in keys |->
                   normalizedValue(rawPriceAt(results[lastOf(key)], index),
                                   minMax[lastOf(key)])])]

combinedDataOf(comp, results) ==
  LET minMax == ArrayValue([i \in DOMAIN results |-> minMaxOf(comp, results[i])])
  IN  ArrayValue([index \in DOMAIN results[1].prices |->
                    entryAt(comp, results, minMax, index)])

(***************************************************************************)
(* EthChart: the correlation matrix.                                       *)
(***************************************************************************)
\* a variant whose second variance subtracts sumX * sumY / n
pearsonMixedVariance(x, y) ==
  LET n == Num(Len(x))
      sumX == SumOf(x)
      sumY == SumOf(y)
      sumXY == SumOf(ArrayValue([i \in DOMAIN x |-> Mul(x[i], y[i])]))
      sumX2 == SumOf(ArrayValue([i \in DOMAIN x |-> Mul(x[i], x[i])]))
      sumY2 == SumOf(ArrayValue([i \in DOMAIN y |-> Mul(y[i], y[i])]))
      numerator == Sub(sumXY, Div(Mul(sumX, sumY), n))
      denominator == Sqrt(Mul(Sub(sumX2, Div(Mul(sumX, sumX), n)),
                              Sub(sumY2, Div(Mul(sumX, sumY), n))))
  IN  IF StrictEq(denominator, Zero) THEN Zero ELSE Div(numerator, denominator)

pearsonCorrelation(x, y) ==
  LET n == Num(Len(x))
      sumX == SumOf(x)
      sumY == SumOf(y)
      sumXY == SumOf(ArrayValue([i \in DOMAIN x |-> Mul(x[i], y[i])]))
      sumX2 == SumOf(ArrayValue([i \in DOMAIN x |-> Mul(x[i], x[i])]))
      sumY2 == SumOf(ArrayValue([i \in DOMAIN y |-> Mul(y[i], y[i])]))
      numerator == Sub(sumXY, Div(Mul(sumX, sumY), n))
      denominator == Sqrt(Mul(Sub(sumX2, Div(Mul(sumX, sumX), n)),
                              Sub(sumY2, Div(Mul(sumY, sumY), n))))
  IN  IF StrictEq(denominator, Zero) THEN Zero ELSE Div(numerator, denominator)

\* data.map((entry) => entry[coin] || 0)
columnOf(data, coin) ==
  ArrayValue([t \in DOMAIN data |->
     OrZero(IF coin \in DOMAIN data[t].vals THEN data[t].vals[coin] ELSE Undefined)])

calculateCorrelationMatrix(data) ==
  [i \in DOMAIN matrixCoins |-> [j \in DOMAIN matrixCoins |->
     pearsonCorrelation(columnOf(data, matrixCoins[i]), columnOf(data, matrixCoins[j]))]]


(***************************************************************************)
(* What the API may answer.  A series is a list of prices; the API dates   *)
(* the entries of coin i from day i on, one a day.                         *)
(***************************************************************************)
MaxDistinct == 2
MaxFailures == 2

SeriesPool ==
  { <<>>,
    <<Num(1), Num(1), Num(1)>>,
    <<Num(1), Num(1), Num(1), Zero, Num(5)>>,
    <<Zero, Num(2)>>,
    <<Num(2), NaN>> }

Timestamp(i, t) == (i + t - 2) * MsPerDay

\* the body of a response: with its prices, or without any
pricesBody(i, series) ==
  [hasPrices |-> TRUE,
   prices |-> [t \in DOMAIN series |-> <<Timestamp(i, t), series[t]>>]]

noPricesBody == [hasPrices |-> FALSE, prices |-> <<>>]

Bodies(i) == {pricesBody(i, series) : series \in SeriesPool} \cup {noPricesBody}

StatusTexts == {"Too Many Requests"}

(***************************************************************************)
(* The state of a mounted component.                                       *)
(***************************************************************************)
VARIABLES
  component,          \* "EthChart" or "CryptoChart"
  pc,                 \* fetchData: "init", "await" (at Promise.all), "done"
  promises,           \* the five promises of coins.map
  all,                \* the promise of Promise.all
  data, correlationMatrix, isLoading, error    \* the component's state

vars == <<component, pc, promises, all, data, correlationMatrix, isLoading, error>>

Components == {"EthChart", "CryptoChart"}

NoResult == [coin |-> <<>>, prices |-> <<>>]
Null == [text |-> "null", coin |-> <<>>, statusText |-> ""]
NoReason == [isError |-> FALSE, message |-> Null]

Pending == [state |-> "pending", value |-> NoResult, reason |-> NoReason]
Fulfilled(v) == [state |-> "fulfilled", value |-> v, reason |-> NoReason]
Rejected(r) == [state |-> "rejected", value |-> NoResult, reason |-> r]

\* new Error(`Failed to fetch ${coin}: ${response.statusText}`)
notOkError(coin, statusText) ==
  [isError |-> TRUE,
   message |-> [text |-> "Failed to fetch ${coin}: ${statusText}",
                coin |-> coin, statusText |-> statusText]]

\* what fetch() or response.json() rejects with
networkError ==
  [isError |-> TRUE,
   message |-> [text |-> "Failed to fetch", coin |-> <<>>, statusText |-> ""]]

\* err instanceof Error ? err.message : "Unknown error occurred"
errorMessage(err) ==
  IF err.isError THEN err.message
  ELSE [text |-> "Unknown error occurred", coin |-> <<>>, statusText |-> ""]

Init ==
  /\ component \in Components
  /\ pc = "init"
  /\ promises = [i \in CoinIx |-> Pending]
  /\ all = [state |-> "pending", values |-> [i \in CoinIx |-> NoResult],
            remaining |-> Len(coins), reason |-> NoReason]
  /\ data = <<>>
  /\ correlationMatrix = <<>>
  /\ isLoading = TRUE
  /\ error = Null

\* the effect: fetchData up to its await
Mount ==
  /\ pc = "init"
  /\ isLoading' = TRUE
  /\ error' = Null
  /\ pc' = "await"
  /\ UNCHANGED <<component, promises, all, data, correlationMatrix>>

\* a variant that stores the values in the order of their arrival
resolveElementByArrival(values, index, remaining, value) ==
  [values EXCEPT ![Len(values) - remaining + 1] = value]

\* Promise.all: the value of promise index arrives
promiseAllResolveElement(values, index, remaining, value) ==
  [values EXCEPT ![index] = value]

\* Promise.all's resolve element function: the value is stored and counted even
\* after a rejection; resolving the settled promise then changes nothing
allOnFulfilled(index, value) ==
  [all EXCEPT
     !.values = promiseAllResolveElement(all.values, index, all.remaining, value),
     !.remaining = @ - 1,
     !.state = IF all.state = "pending" /\ all.remaining = 1 THEN "fulfilled" ELSE @]

\* a variant that waits for every promise and counts a rejected one as settled
\* with no result, as Promise.allSettled would
allSettledOnRejected(reason) ==
  [all EXCEPT
     !.remaining = @ - 1,
     !.state = IF all.state = "pending" /\ all.remaining = 1 THEN "fulfilled" ELSE @]

\* Promise.all: a promise is rejected
allOnRejected(reason) ==
  IF all.state # "pending" THEN all
  ELSE [all EXCEPT !.state = "rejected", !.reason = reason]

FulfilledSeries ==
  {pricesOf(promises[i].value) : i \in {j \in CoinIx : promises[j].state = "fulfilled"}}

Failures == Cardinality({i \in CoinIx : promises[i].state = "rejected"})

\* the fetch of coins[i] answers ok, with a body that parses
FetchOk(i, body) ==
  /\ pc # "init"
  /\ promises[i].state = "pending"
  /\ LET result == [coin |-> coins[i],
                    prices |-> IF body.hasPrices THEN body.prices ELSE <<>>]
     IN  /\ Cardinality(FulfilledSeries \cup {pricesOf(result)}) <= MaxDistinct
         /\ promises' = [promises EXCEPT ![i] = Fulfilled(result)]
         /\ all' = allOnFulfilled(i, result)
  /\ UNCHANGED <<component, pc, data, correlationMatrix, isLoading, error>>

\* the fetch of coins[i] answers with a status that is not ok
FetchNotOk(i, statusText) ==
  /\ pc # "init"
  /\ promises[i].state = "pending"
  /\ Failures < MaxFailures
  /\ promises' = [promises EXCEPT ![i] = Rejected(notOkError(coins[i], statusText))]
  /\ all' = allOnRejected(notOkError(coins[i], statusText))
  /\ UNCHANGED <<component, pc, data, correlationMatrix, isLoading, error>>

\* fetch() of coins[i], or the parse of its body, rejects
FetchRejects(i) ==
  /\ pc # "init"
  /\ promises[i].state = "pending"
  /\ Failures < MaxFailures
  /\ promises' = [promises EXCEPT ![i] = Rejected(networkError)]
  /\ all' = allOnRejected(networkError)
  /\ UNCHANGED <<component, pc, data, correlationMatrix, isLoading, error>>

\* fetchData resumes with the results: the try block to its end, then finally
ProcessResults ==
  /\ pc = "await"
  /\ all.state = "fulfilled"
  /\ LET combinedData == combinedDataOf(component, all.values)
     IN  /\ data' = combinedData
         /\ correlationMatrix' =
              IF component = "EthChart" THEN calculateCorrelationMatrix(combinedData)
              ELSE correlationMatrix
  /\ isLoading' = FALSE
  /\ pc' = "done"
  /\ UNCHANGED <<component, promises, all, error>>

\* a variant without the finally block
CatchErrorOnly ==
  /\ pc = "await"
  /\ all.state = "rejected"
  /\ error' = errorMessage(all.reason)
  /\ pc' = "done"
  /\ UNCHANGED <<component, promises, all, data, correlationMatrix, isLoading>>

\* fetchData resumes with the rejection: catch, then finally
CatchError ==
  /\ pc = "await"
  /\ all.state = "rejected"
  /\ error' = errorMessage(all.reason)
  /\ isLoading' = FALSE
  /\ pc' = "done"
  /\ UNCHANGED <<component, promises, all, data, correlationMatrix>>

Next ==
  \/ Mount
  \/ \E i \in CoinIx : \E body \in Bodies(i) : FetchOk(i, body)
  \/ \E i \in CoinIx : \E statusText \in StatusTexts : FetchNotOk(i, statusText)
  \/ \E i \in CoinIx : FetchRejects(i)
  \/ ProcessResults
  \/ CatchError

Spec == Init /\ [][Next]_vars

\* a fetch can settle: the callbacks of coins.map have run and one is pending
CanSettle == pc # "init" /\ \E i \in CoinIx : promises[i].state = "pending"

\* fetchData can resume: it waits at Promise.all, which has settled
CanResume == pc = "await" /\ all.state # "pending"

\* The effect runs after the first render; every fetch settles in the end; and
\* the job queue runs the continuation of fetchData once Promise.all has
\* settled.  The last two conjuncts are weak fairness of the settling of a fetch
\* (FetchOk, FetchNotOk or FetchRejects of some coin) and of the resumption
\* (ProcessResults or CatchError) with ENABLED written out: such a step is
\* enabled exactly when CanSettle, respectively CanResume, holds, and it can be
\* taken five times, respectively once.
FairSpec ==
  /\ Spec
  /\ WF_vars(Mount)
  /\ []<>(~CanSettle)
  /\ []<>(~CanResume)

\* what the component renders
View ==
  IF isLoading THEN "Loading..."
  ELSE IF error # Null /\ error.text # "" THEN "Error"
  ELSE "chart"

(***************************************************************************)
(* Properties.                                                             *)
(***************************************************************************)
Succeeded == pc = "done" /\ all.state = "fulfilled"
Failed == pc = "done" /\ all.state = "rejected"

\* the raw series the fetch of coins[i] returned
seriesOf(i) == pricesOf(promises[i].value)

IsConstant(xs) == xs # <<>> /\ \A t \in DOMAIN xs : xs[t] = xs[1]
NonConstant(xs) == \E s, t \in DOMAIN xs : xs[s] # xs[t]
AtMost(x, y) == Less(x, y) \/ StrictEq(x, y)
NonNegative(xs) == \A t \in DOMAIN xs : ~IsNaN(xs[t]) /\ AtMost(Zero, xs[t])

\* the value of coins[i] in row t of the table
valueAt(t, i) == data[t].vals[coinKey(i)]

SameLengths ==
  /\ Len(seriesOf(1)) >= 1
  /\ \A i \in CoinIx : Len(seriesOf(i)) = Len(seriesOf(1))

\* C1: in both components, after a successful cycle whose series all have the
\* same length L >= 1 and only non-negative prices, every value of an asset with
\* a non-constant series lies in [0,1], is 0 in the rows of the asset's minimum
\* price and 1 in the rows of its maximum price.
C1_NormalizedInUnitInterval ==
  (Succeeded /\ SameLengths /\ \A i \in CoinIx : NonNegative(seriesOf(i))) =>
    \A i \in CoinIx : NonConstant(seriesOf(i)) =>
      \A t \in DOMAIN data :
        /\ AtMost(Zero, valueAt(t, i))
        /\ AtMost(valueAt(t, i), Num(1))
        /\ StrictEq(seriesOf(i)[t], MathMin(seriesOf(i))) => valueAt(t, i) = Zero
        /\ StrictEq(seriesOf(i)[t], MathMax(seriesOf(i))) => valueAt(t, i) = Num(1)

\* C2: in EthChart, after a successful cycle, the matrix has 1 on the diagonal
\* for each of the five assets whose series is not constant.
C2_SelfCorrelationIsOne ==
  (Succeeded /\ component = "EthChart") =>
    \A i \in CoinIx : NonConstant(seriesOf(i)) => correlationMatrix[i][i] = Num(1)

\* C3: after a successful cycle of EthChart, whatever the fetches returned, no
\* value of the table and no entry of the matrix is NaN.
C3_NoNaNStored ==
  (Succeeded /\ component = "EthChart") =>
    /\ \A t \in DOMAIN data : \A key \in DOMAIN data[t].vals : ~IsNaN(data[t].vals[key])
    /\ \A i, j \in DOMAIN matrixCoins : ~IsNaN(correlationMatrix[i][j])

\* C4: the matrix calculateCorrelationMatrix returns is symmetric: the entries
\* at [i][j] and at [j][i] are the same value, for all i, j.
C4_MatrixSymmetric ==
  (Succeeded /\ component = "EthChart") =>
    \A i, j \in DOMAIN matrixCoins : correlationMatrix[i][j] = correlationMatrix[j][i]

\* C4 happens: a matrix of a table with two columns that vary, whose correlation
\* is a number other than 0, 1 and -1
C4_Witness ==
  /\ Succeeded /\ component = "EthChart"
  /\ \E i, j \in DOMAIN matrixCoins :
       /\ i # j
       /\ correlationMatrix[i][j] \notin {NaN, Zero, Num(1), Neg(Num(1))}

\* C5: for a table with at least one row, a column whose values are all equal
\* (an absent column reads as 0) has 0 in its whole row and column of the matrix,
\* the diagonal included.
C5_ZeroVarianceGivesZero ==
  (Succeeded /\ component = "EthChart" /\ Len(data) >= 1) =>
    \A i \in DOMAIN matrixCoins : IsConstant(columnOf(data, matrixCoins[i])) =>
      \A j \in DOMAIN matrixCoins :
        correlationMatrix[i][j] = Zero /\ correlationMatrix[j][i] = Zero

\* C6: in both components, an asset whose series is constant (all its prices
\* equal, min = max) has 0.5 in every row of the table, whatever the other
\* series are.
C6_ConstantSeriesIsHalf ==
  Succeeded =>
    \A i \in CoinIx : IsConstant(seriesOf(i)) =>
      \A t \in DOMAIN data : valueAt(t, i) = Half

\* C6 happens: a constant series next to a different one, in a table with more
\* rows than the constant series has prices
C6_Witness ==
  /\ Succeeded
  /\ \E i \in CoinIx :
       /\ IsConstant(seriesOf(i))
       /\ Len(data) > Len(seriesOf(i))
       /\ \A t \in DOMAIN data : valueAt(t, i) = Half

\* the asset's own min and max: those of its raw series
ownMinMax(i) == [min |-> MathMin(seriesOf(i)), max |-> MathMax(seriesOf(i))]

\* C7: after a successful cycle the table has one row per entry of the first
\* series, in the same order; where an asset with prices has none at index t,
\* its value is that of the raw price 0 normalized with the asset's own min and
\* max; and error is null.
C7_RowsFollowFirstSeries ==
  Succeeded =>
    /\ Len(data) = Len(seriesOf(1))
    /\ \A t \in DOMAIN data :
         data[t].date = toLocaleDateString(promises[1].value.prices[t][1])
    /\ \A i \in CoinIx : \A t \in DOMAIN data :
         (seriesOf(i) # <<>> /\ t > Len(seriesOf(i))) =>
            valueAt(t, i) = normalizedValue(Zero, ownMinMax(i))
    /\ error = Null

\* C8: the cycle is all-or-nothing.  Once a fetch has failed, data and
\* correlationMatrix stay empty for good, in every interleaving, and the cycle
\* can only end with an error message; and a fetch that settles after the end
\* of a cycle changes nothing of the component's state.
C8_AllOrNothing ==
  /\ [](Failures > 0 => data = <<>> /\ correlationMatrix = <<>>)
  /\ []((Failures > 0 /\ pc = "done") => error # Null /\ error.text # "")
  /\ [][pc = "done" => UNCHANGED <<pc, data, correlationMatrix, isLoading, error>>]_vars

\* C8 happens: a cycle that ended with a failure, some fetches having succeeded
\* and every fetch having settled
C8_Witness ==
  /\ Failed
  /\ error # Null /\ data = <<>> /\ correlationMatrix = <<>>
  /\ \E i \in CoinIx : promises[i].state = "fulfilled"
  /\ \A i \in CoinIx : promises[i].state # "pending"

\* C9: when all five fetches succeed, whatever the order of their completion,
\* the value under the key of coins[i] in row t comes from the price at index t,
\* the min and the max of the series returned for coins[i], and the dates and
\* the number of rows come from the series returned for coins[0].
C9_TableIgnoresCompletionOrder ==
  Succeeded =>
    /\ Len(data) = Len(promises[1].value.prices)
    /\ \A t \in DOMAIN data :
         /\ data[t].date = toLocaleDateString(promises[1].value.prices[t][1])
         /\ \A i \in CoinIx :
              valueAt(t, i) = normalizedValue(rawPriceAt(promises[i].value, t),
                                              minMaxOf(component, promises[i].value))

\* C9 happens: a table of a cycle in which the first coin's series and another
\* coin's differ in their values
C9_Witness ==
  /\ Succeeded
  /\ Len(data) >= 2
  /\ \E i \in CoinIx : \E t \in DOMAIN data : valueAt(t, i) # valueAt(t, 1)

\* C10: isLoading is true until the cycle ends; every fetch settling in the
\* end, it becomes false, on the success path and on the failure path; once
\* false it is never true again; the component then shows the error view when
\* error is not null and the chart view when it is.
C10_LoadingEnds ==
  /\ [](pc # "done" => isLoading /\ View = "Loading...")
  /\ <>(~isLoading)
  /\ [][~isLoading => ~isLoading']_vars
  /\ [](~isLoading => /\ (error # Null => View = "Error")
                      /\ (error = Null => View = "chart"))
  /\ [](Succeeded => ~isLoading /\ error = Null)
  /\ [](Failed => ~isLoading /\ error # Null)

\* C10 happens: the cycle has ended and the error view is shown
C10_Witness == pc = "done" /\ ~isLoading /\ View = "Error"
====
